---- MODULE Spec2Model ----
(***************************************************************************)
(* The Teeny Tiny compiler front end: the lexical scanner of src/lex.py    *)
(* and the single-pass recursive-descent parser / code generator of        *)
(* src/parse.py.                                                           *)
(*                                                                         *)
(* A text is a sequence of pieces.  A source character is a one-character  *)
(* string, the end-of-file marker '\0' is the piece NUL, and a fixed text  *)
(* of an emitted line is one piece per literal of the code.                *)
(***************************************************************************)
EXTENDS Integers, Sequences, FiniteSets, TLC

VARIABLES
  source,          \* Lexer.source: the input with the trailing newline appended
  curPos,          \* Lexer.curPos (0-indexed, as in the code)
  curChar,         \* Lexer.curChar
  curToken,        \* Parser.curToken
  peekToken,       \* Parser.peekToken
  symbols,         \* Parser.symbols
  labelsDeclared,  \* Parser.labelsDeclared
  labelsGotoed,    \* Parser.labelsGotoed
  header,          \* the emitter's header stream, one entry per headerLine call
  code,            \* the emitter's body stream, one entry per emit/emitLine call
  blocks,          \* the open IF / WHILE bodies: the recursion of statement()
  pc,              \* where the run is: lex, init, program, stmts, done
  status,          \* run, or abort once sys.exit was called
  diags,           \* the diagnostics handed to sys.exit, with the state then
  returned,        \* history: every token getToken returned, with its place
  consumed,        \* history: every token nextToken advanced past, and for whom
  steps            \* history: the number of steps the run has taken

vars == <<source, curPos, curChar, curToken, peekToken, symbols, labelsDeclared,
          labelsGotoed, header, code, blocks, pc, status, diags, returned, consumed,
          steps>>

----------------------------------------------------------------------------
(* Bounds of the model *)

\* number of pieces a scanner input is made of
MaxPieces == 3
\* getToken calls made after the cursor passed the end of the buffer
MaxPastEnd == 2
\* lines of a program
MaxLines == 3
\* pieces of the expression of a one-expression program
MaxExprPieces == 4

----------------------------------------------------------------------------
(* Characters *)

NUL == "NUL"

Digits == {"0", "1", "2", "3", "4", "5", "6", "7", "8", "9"}

Letters ==
  {"a", "b", "c", "d", "e", "f", "g", "h", "i", "j", "k", "l", "m", "n", "o", "p",
   "q", "r", "s", "t", "u", "v", "w", "x", "y", "z",
   "A", "B", "C", "D", "E", "F", "G", "H", "I", "J", "K", "L", "M", "N", "O", "P",
   "Q", "R", "S", "T", "U", "V", "W", "X", "Y", "Z"}

IsDigit(c) == c \in Digits

IsAlpha(c) == c \in Letters

IsAlnum(c) == IsDigit(c) \/ IsAlpha(c)

\* Python's s[a:b] for 0 <= a and b <= len(s)
Slice(s, a, b) == SubSeq(s, a + 1, b)

----------------------------------------------------------------------------
(* Tokens *)

\* the members of the enum: the kind, its value and its name as text
TokenType ==
  {[kind |-> "EOF", value |-> -1, name |-> <<"E", "O", "F">>],
   [kind |-> "NEWLINE", value |-> 0, name |-> <<"N", "E", "W", "L", "I", "N", "E">>],
   [kind |-> "NUMBER", value |-> 1, name |-> <<"N", "U", "M", "B", "E", "R">>],
   [kind |-> "IDENT", value |-> 2, name |-> <<"I", "D", "E", "N", "T">>],
   [kind |-> "STRING", value |-> 3, name |-> <<"S", "T", "R", "I", "N", "G">>],
   [kind |-> "LABEL", value |-> 101, name |-> <<"L", "A", "B", "E", "L">>],
   [kind |-> "GOTO", value |-> 102, name |-> <<"G", "O", "T", "O">>],
   [kind |-> "PRINT", value |-> 103, name |-> <<"P", "R", "I", "N", "T">>],
   [kind |-> "INPUT", value |-> 104, name |-> <<"I", "N", "P", "U", "T">>],
   [kind |-> "LET", value |-> 105, name |-> <<"L", "E", "T">>],
   [kind |-> "IF", value |-> 106, name |-> <<"I", "F">>],
   [kind |-> "THEN", value |-> 107, name |-> <<"T", "H", "E", "N">>],
   [kind |-> "ENDIF", value |-> 108, name |-> <<"E", "N", "D", "I", "F">>],
   [kind |-> "WHILE", value |-> 109, name |-> <<"W", "H", "I", "L", "E">>],
   [kind |-> "REPEAT", value |-> 110, name |-> <<"R", "E", "P", "E", "A", "T">>],
   [kind |-> "ENDWHILE", value |-> 111, name |-> <<"E", "N", "D", "W", "H", "I", "L", "E">>],
   [kind |-> "EQ", value |-> 201, name |-> <<"E", "Q">>],
   [kind |-> "PLUS", value |-> 202, name |-> <<"P", "L", "U", "S">>],
   [kind |-> "MINUS", value |-> 203, name |-> <<"M", "I", "N", "U", "S">>],
   [kind |-> "ASTERISK", value |-> 204, name |-> <<"A", "S", "T", "E", "R", "I", "S", "K">>],
   [kind |-> "SLASH", value |-> 205, name |-> <<"S", "L", "A", "S", "H">>],
   [kind |-> "EQEQ", value |-> 206, name |-> <<"E", "Q", "E", "Q">>],
   [kind |-> "NOTEQ", value |-> 207, name |-> <<"N", "O", "T", "E", "Q">>],
   [kind |-> "LT", value |-> 208, name |-> <<"L", "T">>],
   [kind |-> "LTEQ", value |-> 209, name |-> <<"L", "T", "E", "Q">>],
   [kind |-> "GT", value |-> 210, name |-> <<"G", "T">>],
   [kind |-> "GTEQ", value |-> 211, name |-> <<"G", "T", "E", "Q">>]}

Token(tokenText, tokenKind) == [text |-> tokenText, kind |-> tokenKind]

\* Python's None, where a token is expected
NoToken == [text |-> <<>>, kind |-> "None"]

\* a lookup that takes the name of any token kind for a keyword
checkIfKeywordAnyKind(tokenText) ==
  LET hits == {k \in TokenType : k.name = tokenText}
  IN IF hits = {} THEN "None" ELSE (CHOOSE k \in hits : TRUE).kind

\* the keyword kind spelled tokenText, or "None"
checkIfKeyword(tokenText) ==
  LET hits == {k \in TokenType :
                 k.name = tokenText /\ k.value >= 100 /\ k.value < 200}
  IN IF hits = {} THEN "None" ELSE (CHOOSE k \in hits : TRUE).kind

----------------------------------------------------------------------------
(* The scanner.  Its state is the record [curPos, curChar]; src is            *)
(* Lexer.source.                                                           *)

nextChar(src, lx) ==
  LET p == lx.curPos + 1
  IN [curPos |-> p, curChar |-> IF p >= Len(src) THEN NUL ELSE src[p + 1]]

peek(src, lx) ==
  IF lx.curPos + 1 >= Len(src) THEN NUL ELSE src[lx.curPos + 2]

\* the cursor after Lexer.__init__
LexerInit(src) == nextChar(src, [curPos |-> -1, curChar |-> ""])

RECURSIVE skipWhitespace(_, _)
skipWhitespace(src, lx) ==
  IF lx.curChar = " " \/ lx.curChar = "\t" \/ lx.curChar = "\r"
  THEN skipWhitespace(src, nextChar(src, lx))
  ELSE lx

RECURSIVE SkipToNewline(_, _)
SkipToNewline(src, lx) ==
  IF lx.curChar # "\n" THEN SkipToNewline(src, nextChar(src, lx)) ELSE lx

skipComment(src, lx) ==
  IF lx.curChar = "#" THEN SkipToNewline(src, lx) ELSE lx

\* what a branch of getToken yields: a token and the cursor, or the message
\* of Lexer.abort
Scanned(kind, text, lx) == [err |-> "", tok |-> Token(text, kind), lx |-> lx]

LexAbort(message, lx) == [err |-> message, tok |-> NoToken, lx |-> lx]

\* = > < : the two-character form when the next character is '='
\* the two-character token that ends on the cursor nx
TwoChars(kind, lastChar, nx) == Scanned(kind, <<lastChar, nx.curChar>>, nx)

\* a scan of = > < that never probes the next character
ScanRelationalNoProbe(src, lx, one, two) == Scanned(one, <<lx.curChar>>, lx)

ScanRelational(src, lx, one, two) ==
  IF peek(src, lx) = "="
  THEN TwoChars(two, lx.curChar, nextChar(src, lx))
  ELSE Scanned(one, <<lx.curChar>>, lx)

ScanBang(src, lx) ==
  IF peek(src, lx) = "="
  THEN TwoChars("NOTEQ", lx.curChar, nextChar(src, lx))
  ELSE LexAbort("Expected !=,  got !", lx)

\* a test of the string loop that lets the percent sign through
IllegalInStringNoPercent(c) == c = "\r" \/ c = "\n" \/ c = "\t" \/ c = "\\"

IllegalInString(c) ==
  c = "\r" \/ c = "\n" \/ c = "\t" \/ c = "%" \/ c = "\\"

\* the loop of the string branch: the cursor on the closing quote, or abort
RECURSIVE StringLoop(_, _, _)
StringLoop(src, lx, startPos) ==
  IF lx.curChar = "\""
  THEN Scanned("STRING", Slice(src, startPos, lx.curPos), lx)
  ELSE IF IllegalInString(lx.curChar)
       THEN LexAbort("Illegal character in string.", lx)
       ELSE StringLoop(src, nextChar(src, lx), startPos)

ScanString(src, lx) ==
  LET From(nx) == StringLoop(src, nx, nx.curPos)
  IN From(nextChar(src, lx))

RECURSIVE WhilePeekDigit(_, _)
WhilePeekDigit(src, lx) ==
  IF IsDigit(peek(src, lx)) THEN WhilePeekDigit(src, nextChar(src, lx)) ELSE lx

\* the number is the text from startPos to the cursor, the cursor included
NumberUpTo(src, startPos, lx) ==
  Scanned("NUMBER", Slice(src, startPos, lx.curPos + 1), lx)

\* a mis-scan of the number branch: the digit after the point is not required
ScanNumberNoFractionCheck(src, lx) ==
  LET AfterDigits(l1) ==
        IF peek(src, l1) = "."
        THEN NumberUpTo(src, lx.curPos, WhilePeekDigit(src, nextChar(src, l1)))
        ELSE NumberUpTo(src, lx.curPos, l1)
  IN AfterDigits(WhilePeekDigit(src, lx))

ScanNumber(src, lx) ==
  LET AfterPoint(l2) ==
        IF ~IsDigit(peek(src, l2))
        THEN LexAbort("Illegal character in number.", l2)
        ELSE NumberUpTo(src, lx.curPos, WhilePeekDigit(src, l2))
      AfterDigits(l1) ==
        IF peek(src, l1) = "."
        THEN AfterPoint(nextChar(src, l1))
        ELSE NumberUpTo(src, lx.curPos, l1)
  IN AfterDigits(WhilePeekDigit(src, lx))

RECURSIVE WhilePeekAlnum(_, _)
WhilePeekAlnum(src, lx) ==
  IF IsAlnum(peek(src, lx)) THEN WhilePeekAlnum(src, nextChar(src, lx)) ELSE lx

ScanWord(src, lx) ==
  LET Word(tokText, keyword, l1) ==
        IF keyword = "None"
        THEN Scanned("IDENT", tokText, l1)
        ELSE Scanned(keyword, tokText, l1)
      Spelled(tokText, l1) == Word(tokText, checkIfKeyword(tokText), l1)
      AfterWord(l1) == Spelled(Slice(src, lx.curPos, l1.curPos + 1), l1)
  IN AfterWord(WhilePeekAlnum(src, lx))

\* the if / elif chain of getToken, on the cursor left by the two skips
Classify(src, lx) ==
  LET c == lx.curChar
  IN CASE c = "+" -> Scanned("PLUS", <<c>>, lx)
       [] c = "-" -> Scanned("MINUS", <<c>>, lx)
       [] c = "*" -> Scanned("ASTERISK", <<c>>, lx)
       [] c = "/" -> Scanned("SLASH", <<c>>, lx)
       [] c = "\n" -> Scanned("NEWLINE", <<c>>, lx)
       [] c = "=" -> ScanRelational(src, lx, "EQ", "EQEQ")
       [] c = ">" -> ScanRelational(src, lx, "GT", "GTEQ")
       [] c = "<" -> ScanRelational(src, lx, "LT", "LTEQ")
       [] c = "!" -> ScanBang(src, lx)
       [] c = "\"" -> ScanString(src, lx)
       [] IsDigit(c) -> ScanNumber(src, lx)
       [] IsAlpha(c) -> ScanWord(src, lx)
       [] c = NUL -> Scanned("EOF", <<c>>, lx)
       [] OTHER -> LexAbort("Unknown token: ", lx)

\* Lexer.getToken: [err, tok, lx, at], at being the cursor where the token starts
getToken(src, lx) ==
  LET Return(r, at) ==
        [err |-> r.err, tok |-> r.tok, at |-> at,
         lx |-> IF r.err # "" THEN r.lx ELSE nextChar(src, r.lx)]
      Token0(l0) == Return(Classify(src, l0), l0.curPos)
  IN Token0(skipComment(src, skipWhitespace(src, lx)))

----------------------------------------------------------------------------
(* The state of a run as one value, so that a routine is an operator from  *)
(* the state before it to the state after it.  Once sys.exit was called     *)
(* (status is "abort") nothing more of the run executes: every routine     *)
(* hands such a state back as it is.                                       *)

Cur ==
  [lx |-> [curPos |-> curPos, curChar |-> curChar],
   curToken |-> curToken, peekToken |-> peekToken,
   symbols |-> symbols, labelsDeclared |-> labelsDeclared,
   labelsGotoed |-> labelsGotoed,
   header |-> header, code |-> code,
   status |-> status, diags |-> diags,
   returned |-> returned, consumed |-> consumed]

Commit(st) ==
  /\ curPos' = st.lx.curPos
  /\ curChar' = st.lx.curChar
  /\ curToken' = st.curToken
  /\ peekToken' = st.peekToken
  /\ symbols' = st.symbols
  /\ labelsDeclared' = st.labelsDeclared
  /\ labelsGotoed' = st.labelsGotoed
  /\ header' = st.header
  /\ code' = st.code
  /\ status' = st.status
  /\ diags' = st.diags
  /\ returned' = st.returned
  /\ consumed' = st.consumed

Running(st) == st.status = "run"

\* a diagnostic, with what the run had done when sys.exit was called
Diagnostic(st, phase, message, detail) ==
  [phase |-> phase, message |-> message, detail |-> detail,
   nReturned |-> Len(st.returned), nConsumed |-> Len(st.consumed),
   nHeader |-> Len(st.header), nCode |-> Len(st.code),
   sets |-> <<st.symbols, st.labelsDeclared, st.labelsGotoed>>]

\* sys.exit(phase + message + detail)
Exit(st, phase, message, detail) ==
  [st EXCEPT !.status = "abort",
             !.diags = Append(@, Diagnostic(st, phase, message, detail))]

\* a Parser.abort that reports and returns instead of leaving the run
abortAndGoOn(st, message, detail) ==
  IF ~Running(st) THEN st
  ELSE [st EXCEPT !.diags = Append(@, Diagnostic(st, "Error. ", message, detail))]

\* Parser.abort
abort(st, message, detail) ==
  IF ~Running(st) THEN st ELSE Exit(st, "Error. ", message, detail)

\* Lexer.abort, reached from getToken
LexerAbort(st, message, detail) ==
  IF ~Running(st) THEN st ELSE Exit(st, "Lexing Error. ", message, detail)

----------------------------------------------------------------------------
(* The emitter: append-only header and body streams *)

emit(st, text) ==
  IF ~Running(st) THEN st ELSE [st EXCEPT !.code = Append(@, text)]

emitLine(st, text) ==
  IF ~Running(st) THEN st ELSE [st EXCEPT !.code = Append(@, text \o <<"\n">>)]

headerLine(st, text) ==
  IF ~Running(st) THEN st ELSE [st EXCEPT !.header = Append(@, text \o <<"\n">>)]

----------------------------------------------------------------------------
(* The parser *)

checkToken(st, kind) == kind = st.curToken.kind

checkPeek(st, kind) == kind = st.peekToken.kind

\* Parser.nextToken, called by routine `by`
nextToken(st, by) ==
  LET Shifted ==
        [st EXCEPT !.curToken = st.peekToken,
                   !.consumed = IF st.curToken = NoToken THEN @
                                ELSE Append(@, [kind |-> st.curToken.kind,
                                                text |-> st.curToken.text,
                                                by |-> by])]
      Got(r) ==
        IF r.err # ""
        THEN LexerAbort([Shifted EXCEPT !.lx = r.lx], r.err, <<r.at>>)
        ELSE [Shifted EXCEPT
                !.lx = r.lx,
                !.peekToken = r.tok,
                !.returned = Append(@, [kind |-> r.tok.kind, text |-> r.tok.text,
                                        at |-> r.at, end |-> r.lx.curPos])]
  IN IF ~Running(st) THEN st ELSE Got(getToken(source, st.lx))

match(st, kind) ==
  IF ~Running(st) THEN st
  ELSE nextToken(IF ~checkToken(st, kind)
                 THEN abort(st, "Expected ", <<kind, st.curToken.kind>>)
                 ELSE st,
                 "match")

RECURSIVE WhileNewline(_, _)
WhileNewline(st, by) ==
  IF Running(st) /\ checkToken(st, "NEWLINE")
  THEN WhileNewline(nextToken(st, by), by)
  ELSE st

\* an nl that skips the newlines there are and asks for none
nlOptional(st) == WhileNewline(st, "nl")

nl(st) == WhileNewline(match(st, "NEWLINE"), "nl")

\* a primary that lets any identifier through
primaryUnchecked(st) ==
  IF ~Running(st) THEN st
  ELSE IF checkToken(st, "NUMBER") \/ checkToken(st, "IDENT")
       THEN nextToken(emit(st, st.curToken.text), "primary")
       ELSE abort(st, "Unexpected token at ", st.curToken.text)

\* a primary whose identifier branch is taken only by declared names
primaryMisreported(st) ==
  IF ~Running(st) THEN st
  ELSE IF checkToken(st, "NUMBER")
          \/ (checkToken(st, "IDENT") /\ st.curToken.text \in st.symbols)
       THEN nextToken(emit(st, st.curToken.text), "primary")
       ELSE abort(st, "Unexpected token at ", st.curToken.text)

primary(st) ==
  IF ~Running(st) THEN st
  ELSE IF checkToken(st, "NUMBER")
       THEN nextToken(emit(st, st.curToken.text), "primary")
       ELSE IF checkToken(st, "IDENT")
            THEN nextToken(
                   emit(IF st.curToken.text \notin st.symbols
                        THEN abort(st, "Referencing variable before assignment: ",
                                   st.curToken.text)
                        ELSE st,
                        st.curToken.text),
                   "primary")
            ELSE abort(st, "Unexpected token at ", st.curToken.text)

\* a unary that advances past the sign without emitting it
unarySignDropped(st) ==
  IF ~Running(st) THEN st
  ELSE primary(IF checkToken(st, "PLUS") \/ checkToken(st, "MINUS")
               THEN nextToken(st, "unary")
               ELSE st)

unary(st) ==
  IF ~Running(st) THEN st
  ELSE primary(IF checkToken(st, "PLUS") \/ checkToken(st, "MINUS")
               THEN nextToken(emit(st, st.curToken.text), "unary")
               ELSE st)

RECURSIVE TermLoop(_)
TermLoop(st) ==
  IF Running(st) /\ (checkToken(st, "ASTERISK") \/ checkToken(st, "SLASH"))
  THEN TermLoop(unary(nextToken(emit(st, st.curToken.text), "term")))
  ELSE st

term(st) == TermLoop(unary(st))

RECURSIVE ExpressionLoop(_)
ExpressionLoop(st) ==
  IF Running(st) /\ (checkToken(st, "PLUS") \/ checkToken(st, "MINUS"))
  THEN ExpressionLoop(term(nextToken(emit(st, st.curToken.text), "expression")))
  ELSE st

expression(st) == ExpressionLoop(term(st))

isComparisonOperator(st) ==
  \/ checkToken(st, "GT") \/ checkToken(st, "GTEQ") \/ checkToken(st, "LT")
  \/ checkToken(st, "LTEQ") \/ checkToken(st, "EQEQ") \/ checkToken(st, "NOTEQ")

RECURSIVE ComparisonLoop(_)
ComparisonLoop(st) ==
  IF Running(st) /\ isComparisonOperator(st)
  THEN ComparisonLoop(expression(nextToken(emit(st, st.curToken.text), "comparison")))
  ELSE st

comparison(st) ==
  LET AfterLeft(s1) ==
        IF ~Running(s1) THEN s1
        ELSE ComparisonLoop(
               IF isComparisonOperator(s1)
               THEN expression(nextToken(emit(s1, s1.curToken.text), "comparison"))
               ELSE abort(s1, "Expected comparison operator at: ", s1.curToken.text))
  IN AfterLeft(expression(st))

\* "PRINT" (expression | string)
printStatement(st) ==
  LET Printed(s1) ==
        IF ~Running(s1) THEN s1
        ELSE IF checkToken(s1, "STRING")
             THEN nextToken(emitLine(s1, <<"printf(\"">> \o s1.curToken.text
                                           \o <<"\\n\");">>),
                            "statement")
             ELSE emitLine(expression(emit(s1, <<"printf(\"%",
                                                 ".2f\\n\", (float)(">>)),
                           <<"));">>)
  IN Printed(nextToken(st, "statement"))

\* "IF" comparison "THEN" nl, up to the loop over the body
ifHeader(st) ==
  emitLine(nl(match(comparison(emit(nextToken(st, "statement"), <<"if(">>)),
                    "THEN")),
           <<"){">>)

\* "ENDIF", after the loop over the body
ifEnd(st) == emitLine(match(st, "ENDIF"), <<"}">>)

\* "WHILE" comparison "REPEAT" nl, up to the loop over the body
whileHeader(st) ==
  emitLine(nl(match(comparison(emit(nextToken(st, "statement"), <<"while(">>)),
                    "REPEAT")),
           <<"){">>)

\* an end of WHILE that leaves the block of the target open
whileEndUnclosed(st) == match(st, "ENDWHILE")

\* "ENDWHILE", after the loop over the body
whileEnd(st) == emitLine(match(st, "ENDWHILE"), <<"}">>)

addLabelDeclared(st, name) ==
  IF ~Running(st) THEN st ELSE [st EXCEPT !.labelsDeclared = @ \cup {name}]

\* a LABEL branch that does not look the name up
labelStatementNoLookup(st) ==
  LET Labelled(s1, name) ==
        match(emitLine(addLabelDeclared(s1, name), name \o <<":">>), "IDENT")
      Named(s1) == Labelled(s1, s1.curToken.text)
  IN Named(nextToken(st, "statement"))

\* "LABEL" ident
labelStatement(st) ==
  LET Labelled(s2, name) ==
        match(emitLine(addLabelDeclared(s2, name), name \o <<":">>), "IDENT")
      Named(s1, name) ==
        Labelled(IF Running(s1) /\ name \in s1.labelsDeclared
                 THEN abort(s1, "Label already exists: ", name)
                 ELSE s1,
                 name)
      Unique(s1) == Named(s1, s1.curToken.text)
  IN Unique(nextToken(st, "statement"))

\* "GOTO" ident
gotoStatement(st) ==
  LET Named(s1, name) ==
        match(emitLine(IF ~Running(s1) THEN s1
                       ELSE [s1 EXCEPT !.labelsGotoed = @ \cup {name}],
                       <<"goto ">> \o name \o <<";">>),
              "IDENT")
      Gone(s1) == Named(s1, s1.curToken.text)
  IN Gone(nextToken(st, "statement"))

\* a declaration that emits the float line whether or not the name is known
declareAlways(st, name) ==
  IF ~Running(st) THEN st
  ELSE headerLine([st EXCEPT !.symbols = @ \cup {name}],
                  <<"float ">> \o name \o <<";">>)

\* a declaration that forgets the names declared before
declareReplacing(st, name) ==
  IF Running(st) /\ name \notin st.symbols
  THEN headerLine([st EXCEPT !.symbols = {name}],
                  <<"float ">> \o name \o <<";">>)
  ELSE st

\* the name enters symbols, with its float line, unless it is there already
declare(st, name) ==
  IF Running(st) /\ name \notin st.symbols
  THEN headerLine([st EXCEPT !.symbols = @ \cup {name}],
                  <<"float ">> \o name \o <<";">>)
  ELSE st

\* a LET that declares its target after the expression
letStatementDeclaringLast(st) ==
  LET Named(s1, name) ==
        emitLine(declare(expression(match(match(emit(s1, name \o <<" = ">>),
                                                "IDENT"),
                                          "EQ")),
                         name),
                 <<";">>)
      Assigned(s1) == Named(s1, s1.curToken.text)
  IN Assigned(nextToken(st, "statement"))

\* "LET" ident "=" expression
letStatement(st) ==
  LET Named(s1, name) ==
        emitLine(expression(match(match(emit(declare(s1, name), name \o <<" = ">>),
                                        "IDENT"),
                                  "EQ")),
                 <<";">>)
      Assigned(s1) == Named(s1, s1.curToken.text)
  IN Assigned(nextToken(st, "statement"))

\* "INPUT" ident
inputStatement(st) ==
  LET Guarded(s1, name) ==
        emitLine(declare(s1, name),
                 <<"if(0==scanf(\"%", "f\", &">> \o name \o <<")) {">>)
      Named(s1, name) ==
        match(emitLine(emitLine(emit(emitLine(Guarded(s1, name), name \o <<" = 0;">>),
                                     <<"scanf(\"%">>),
                                <<"*s\");">>),
                       <<"}">>),
              "IDENT")
      Read(s1) == Named(s1, s1.curToken.text)
  IN Read(nextToken(st, "statement"))

\* an else branch that lets the token stand and goes on
invalidStatementIgnored(st) == st

invalidStatement(st) ==
  abort(st, "Invalid Statement at ", <<st.curToken.text, <<st.curToken.kind>>>>)

\* the kinds a statement starts with
StatementKinds == {"PRINT", "IF", "WHILE", "LABEL", "GOTO", "LET", "INPUT"}

\* the head of program(): the two header lines and the leading newlines
programHead(st) ==
  WhileNewline(headerLine(headerLine(st, <<"#include <stdio.h>">>),
                          <<"int main(void){">>),
               "program")

programEpilogue(st) == emitLine(emitLine(st, <<"return 0;">>), <<"}">>)

\* a final check that finds nothing
undeclaredGotosNone(st) == {}

\* the labels the loop at the end of program() aborts on
undeclaredGotos(st) == {label \in st.labelsGotoed : label \notin st.labelsDeclared}

----------------------------------------------------------------------------
(* Inputs *)

LexPieces ==
  {<<"1">>, <<".">>, <<"a">>, <<"=">>, <<"<">>, <<">">>, <<"!">>, <<"\"">>,
   <<"%">>, <<" ">>, <<"#">>, <<"\n">>, <<NUL>>, <<"I", "F">>, <<"i", "f">>,
   <<"E", "O", "F">>}

\* the texts made of up to n pieces
RECURSIVE Texts(_, _)
Texts(pieces, n) ==
  IF n = 0 THEN {<<>>}
  ELSE LET shorter == Texts(pieces, n - 1)
       IN shorter \cup {t \o p : t \in shorter, p \in pieces}

\* the spelling of a keyword
Kw(kind) == (CHOOSE k \in TokenType : k.kind = kind).name

RECURSIVE Spaced(_)
Spaced(words) ==
  IF Len(words) = 0 THEN <<>>
  ELSE IF Len(words) = 1 THEN words[1]
       ELSE words[1] \o <<" ">> \o Spaced(Tail(words))

ProgramLines ==
  {<<>>,
   Spaced(<<Kw("LET"), <<"x">>, <<"=">>, <<"1">>>>),
   Spaced(<<Kw("INPUT"), <<"y">>, <<"#">>, <<"c">>>>),
   Spaced(<<Kw("PRINT"), <<"x">>>>),
   Spaced(<<Kw("PRINT"), <<"\"", "h", "i", "\"">>>>),
   Spaced(<<Kw("PRINT"), <<"1">>, <<"-">>, <<"-", "2">>>>),
   Spaced(<<Kw("LABEL"), <<"a">>>>),
   Spaced(<<Kw("GOTO"), <<"a">>>>),
   Spaced(<<Kw("LABEL"), <<"a">>, Kw("GOTO"), <<"a">>>>),
   Spaced(<<Kw("IF"), <<"1">>, <<">">>, <<"0">>, Kw("THEN")>>),
   Kw("ENDIF"),
   Spaced(<<Kw("WHILE"), <<"1">>, <<"<">>, <<"2">>, Kw("REPEAT")>>),
   Kw("ENDWHILE")}

\* the programs of up to n lines, a newline between two lines
RECURSIVE LinePrograms(_)
LinePrograms(n) ==
  IF n <= 1 THEN ProgramLines
  ELSE LET shorter == LinePrograms(n - 1)
       IN shorter \cup {t \o <<"\n">> \o l : t \in shorter, l \in ProgramLines}

\* the programs of up to n lines inside the body of one IF
NestedPrograms(n) ==
  {Spaced(<<Kw("IF"), <<"1">>, <<">">>, <<"0">>, Kw("THEN")>>) \o <<"\n">> \o t
     \o <<"\n">> \o Kw("ENDIF") : t \in LinePrograms(n)}

ExprPieces ==
  {<<"1">>, <<"x">>, <<"y">>, <<"+">>, <<"-">>, <<"*">>, <<"<">>, <<"$">>}

\* what stands before and after the expression
ExprContexts ==
  {<<Spaced(<<Kw("LET"), <<"x">>, <<"=">>, <<"1">>>>) \o <<"\n">> \o Kw("PRINT")
       \o <<" ">>,
     <<>>>>,
   <<Spaced(<<Kw("LET"), <<"x">>, <<"=">>>>) \o <<" ">>, <<>>>>,
   <<Spaced(<<Kw("INPUT"), <<"x">>>>) \o <<"\n">> \o Kw("IF") \o <<" ">>,
     <<" ">> \o Kw("THEN") \o <<"\n">> \o Kw("ENDIF")>>}

ExprPrograms ==
  {c[1] \o e \o c[2] : c \in ExprContexts, e \in Texts(ExprPieces, MaxExprPieces)}

Programs ==
  LinePrograms(MaxLines) \cup NestedPrograms(MaxLines - 1) \cup ExprPrograms

----------------------------------------------------------------------------
(* The scanner alone: a Lexer on an input, and a caller that keeps calling *)
(* getToken                                                                *)

ParserFieldsInit ==
  /\ curToken = NoToken
  /\ peekToken = NoToken
  /\ symbols = {}
  /\ labelsDeclared = {}
  /\ labelsGotoed = {}
  /\ header = <<>>
  /\ code = <<>>
  /\ blocks = <<>>
  /\ status = "run"
  /\ diags = <<>>
  /\ returned = <<>>
  /\ consumed = <<>>
  /\ steps = 0

LexerFieldsInit(input) ==
  /\ source = Append(input, "\n")
  /\ curPos = LexerInit(Append(input, "\n")).curPos
  /\ curChar = LexerInit(Append(input, "\n")).curChar

InitLex ==
  /\ \E input \in Texts(LexPieces, MaxPieces) : LexerFieldsInit(input)
  /\ pc = "lex"
  /\ ParserFieldsInit

LexerGetToken ==
  /\ pc = "lex"
  /\ status = "run"
  /\ curPos < Len(source) + MaxPastEnd
  /\ LET Got(r) ==
           IF r.err # ""
           THEN LexerAbort([Cur EXCEPT !.lx = r.lx], r.err, <<r.at>>)
           ELSE [Cur EXCEPT
                   !.lx = r.lx,
                   !.returned = Append(@, [kind |-> r.tok.kind, text |-> r.tok.text,
                                           at |-> r.at, end |-> r.lx.curPos])]
     IN Commit(Got(getToken(source, Cur.lx)))
  /\ steps' = steps + 1
  /\ UNCHANGED <<source, blocks, pc>>

NextLex == LexerGetToken

SpecLex == InitLex /\ [][NextLex]_vars

----------------------------------------------------------------------------
(* A translation run: Lexer(input), Parser(lexer, emitter), program()      *)

Init ==
  /\ \E input \in Programs : LexerFieldsInit(input)
  /\ pc = "init"
  /\ ParserFieldsInit

\* the state st is reached; the run goes on at nextPc unless it has ended
Step(st, nextPc, nextBlocks) ==
  /\ Commit(st)
  /\ pc' = IF Running(st) THEN nextPc ELSE pc
  /\ blocks' = IF Running(st) THEN nextBlocks ELSE blocks
  /\ steps' = steps + 1
  /\ UNCHANGED source

\* Parser.__init__
ParserInit ==
  /\ pc = "init"
  /\ status = "run"
  /\ Step(nextToken(nextToken(Cur, "__init__"), "__init__"), "program", blocks)

ProgramHead ==
  /\ pc = "program"
  /\ status = "run"
  /\ Step(programHead(Cur), "stmts", blocks)

\* the token that ends the loop over statements the run is in
Closer ==
  IF blocks = <<>> THEN "EOF"
  ELSE IF blocks[Len(blocks)] = "IF" THEN "ENDIF" ELSE "ENDWHILE"

\* the loop the run is in calls statement(), and the current token is `kind`
StatementOf(kind) ==
  /\ pc = "stmts"
  /\ status = "run"
  /\ ~checkToken(Cur, Closer)
  /\ checkToken(Cur, kind)

StatementPrint ==
  /\ StatementOf("PRINT")
  /\ Step(nl(printStatement(Cur)), pc, blocks)

StatementIf ==
  /\ StatementOf("IF")
  /\ Step(ifHeader(Cur), pc, Append(blocks, "IF"))

\* the loop over an IF body ends: the rest of that statement()
StatementIfEnd ==
  /\ pc = "stmts"
  /\ status = "run"
  /\ blocks # <<>>
  /\ blocks[Len(blocks)] = "IF"
  /\ checkToken(Cur, "ENDIF")
  /\ Step(nl(ifEnd(Cur)), pc, SubSeq(blocks, 1, Len(blocks) - 1))

StatementWhile ==
  /\ StatementOf("WHILE")
  /\ Step(whileHeader(Cur), pc, Append(blocks, "WHILE"))

\* the loop over a WHILE body ends: the rest of that statement()
StatementWhileEnd ==
  /\ pc = "stmts"
  /\ status = "run"
  /\ blocks # <<>>
  /\ blocks[Len(blocks)] = "WHILE"
  /\ checkToken(Cur, "ENDWHILE")
  /\ Step(nl(whileEnd(Cur)), pc, SubSeq(blocks, 1, Len(blocks) - 1))

StatementLabel ==
  /\ StatementOf("LABEL")
  /\ Step(nl(labelStatement(Cur)), pc, blocks)

StatementGoto ==
  /\ StatementOf("GOTO")
  /\ Step(nl(gotoStatement(Cur)), pc, blocks)

StatementLet ==
  /\ StatementOf("LET")
  /\ Step(nl(letStatement(Cur)), pc, blocks)

StatementInput ==
  /\ StatementOf("INPUT")
  /\ Step(nl(inputStatement(Cur)), pc, blocks)

StatementInvalid ==
  /\ pc = "stmts"
  /\ status = "run"
  /\ ~checkToken(Cur, Closer)
  /\ curToken.kind \notin StatementKinds
  /\ Step(nl(invalidStatement(Cur)), pc, blocks)

\* the loop over the program's statements ends: the epilogue and the check
\* of the GOTOs, which aborts on the first undeclared label the set yields
ProgramEnd ==
  /\ pc = "stmts"
  /\ status = "run"
  /\ blocks = <<>>
  /\ checkToken(Cur, "EOF")
  /\ LET Checked(s1) ==
           IF undeclaredGotos(s1) = {}
           THEN Step(s1, "done", blocks)
           ELSE \E label \in undeclaredGotos(s1) :
                  Step(abort(s1, "Attempting to GOTO to an undeclared label: ",
                             label),
                       "done", blocks)
     IN Checked(programEpilogue(Cur))

Next ==
  \/ ParserInit
  \/ ProgramHead
  \/ StatementPrint
  \/ StatementIf
  \/ StatementIfEnd
  \/ StatementWhile
  \/ StatementWhileEnd
  \/ StatementLabel
  \/ StatementGoto
  \/ StatementLet
  \/ StatementInput
  \/ StatementInvalid
  \/ ProgramEnd

Spec == Init /\ [][Next]_vars

----------------------------------------------------------------------------
(* The same run from before the lexer is constructed, as one sequential     *)
(* program: while a step is possible, one is taken                          *)

InitLive ==
  /\ source = <<>>
  /\ curPos = -1
  /\ curChar = NUL
  /\ pc = "load"
  /\ ParserFieldsInit

\* Lexer.__init__ on the input
LexerNew ==
  /\ pc = "load"
  /\ \E input \in Programs :
       /\ source' = Append(input, "\n")
       /\ curPos' = LexerInit(Append(input, "\n")).curPos
       /\ curChar' = LexerInit(Append(input, "\n")).curChar
  /\ pc' = "init"
  /\ steps' = steps + 1
  /\ UNCHANGED <<curToken, peekToken, symbols, labelsDeclared, labelsGotoed,
                 header, code, blocks, status, diags, returned, consumed>>

NextLive == LexerNew \/ Next

\* the run has ended: program() returned, or sys.exit was called
Ended == pc = "done" \/ status = "abort"

\* Fairness.  Every step of NextLive adds one to `steps`, so none of them
\* stutters, and a step is possible exactly when the run has not ended (see
\* SomeStepPossible below).  Weak fairness of NextLive is therefore: again
\* and again, the run has ended or a step is taken.  It is written out in
\* this form for the steps of the parser, whose ENABLED predicate TLC
\* evaluates without sharing subexpressions.
SpecLive ==
  /\ InitLive
  /\ [][NextLive]_vars
  /\ WF_vars(LexerNew)
  /\ ([]<>Ended \/ []<><<Next>>_vars)

----------------------------------------------------------------------------
(* Properties.  They read the two histories: `consumed`, the tokens in     *)
(* source order with the routine that advanced past each, and `returned`,  *)
(* the scanner's output with the place of each token in the source.        *)

\* the names that are the target of a LET or INPUT among the first n
\* consumed tokens
DeclaredWithin(n) ==
  {consumed[j + 1].text :
     j \in {k \in 1..(n - 1) : /\ consumed[k].kind \in {"LET", "INPUT"}
                               /\ consumed[k + 1].kind = "IDENT"}}

\* the i-th consumed token is an identifier that primary() took
UsedByPrimary(i) == consumed[i].by = "primary" /\ consumed[i].kind = "IDENT"

ReferencedBeforeAssignment == "Referencing variable before assignment: "

\* C1: define-before-use.  Every identifier primary() consumes is the target of
\* a LET or INPUT that stands strictly earlier in the source, in every state of
\* every run and so in every accepted program; and a run that primary() ended
\* for this reason stopped on an identifier that is not in symbols.
C1_DefineBeforeUse ==
  /\ \A i \in DOMAIN consumed :
       UsedByPrimary(i) => consumed[i].text \in DeclaredWithin(i - 1)
  /\ (diags # <<>> /\ diags[1].message = ReferencedBeforeAssignment)
       => /\ curToken.kind = "IDENT"
          /\ curToken.text \notin symbols
          /\ curToken.text \notin DeclaredWithin(Len(consumed))

\* C1 witness: an accepted program in which primary() consumed an identifier
C1_Witness ==
  /\ pc = "done"
  /\ \E i \in DOMAIN consumed : UsedByPrimary(i)

\* the name after the i-th consumed token, a LABEL or a GOTO
NameAfter(i) == consumed[i + 1].text

\* the consumed LABEL (GOTO) tokens whose name was consumed too
Keywords(kind) ==
  {i \in 1..(Len(consumed) - 1) : consumed[i].kind = kind}

UndeclaredLabel == "Attempting to GOTO to an undeclared label: "

Epilogue == <<(<<"return 0;", "\n">>), (<<"}", "\n">>)>>

EpilogueEmitted ==
  /\ Len(code) >= 2
  /\ SubSeq(code, Len(code) - 1, Len(code)) = Epilogue

\* C2: the dangling-goto check is deferred and complete.  In an accepted
\* program every GOTO name is the name of a LABEL somewhere in the program;
\* the run aborts for an undeclared label at most once, and then the EOF token
\* is current, no IF or WHILE body is open, the epilogue is out, and the label
\* reported is the name of a GOTO and of no LABEL of the program.
C2_DanglingGotoDeferred ==
  /\ pc = "done" =>
       \A g \in Keywords("GOTO") :
         \E l \in Keywords("LABEL") : NameAfter(l) = NameAfter(g)
  /\ \A d \in DOMAIN diags :
       diags[d].message = UndeclaredLabel =>
         /\ Len(diags) = 1
         /\ curToken.kind = "EOF"
         /\ blocks = <<>>
         /\ EpilogueEmitted
         /\ \E g \in Keywords("GOTO") : NameAfter(g) = diags[d].detail
         /\ \A l \in Keywords("LABEL") : NameAfter(l) # diags[d].detail

\* C2 witness: an accepted program with a GOTO before the LABEL it names
C2_Witness ==
  /\ pc = "done"
  /\ \E g \in Keywords("GOTO") :
       \E l \in Keywords("LABEL") : g < l /\ NameAfter(l) = NameAfter(g)

LabelExists == "Label already exists: "

\* C3: a duplicate label is eager.  When statement() is entered on LABEL and
\* the name that follows is already in labelsDeclared, that step aborts the
\* run: only the LABEL token was advanced past, nothing was appended to the
\* body, labelsDeclared is as it was, and the diagnostic is not the one of the
\* check at the end of the program.
C3_DuplicateLabelEager ==
  [][(StatementOf("LABEL") /\ peekToken.text \in labelsDeclared)
       => /\ status' = "abort"
          /\ code' = code
          /\ labelsDeclared' = labelsDeclared
          /\ Len(consumed') = Len(consumed) + 1
          /\ consumed'[Len(consumed')].kind = "LABEL"
          /\ Len(diags') = 1
          /\ diags'[1].message # UndeclaredLabel]_vars

\* C3 witness: a run ended by the duplicate-label diagnostic inside a body
C3_Witness ==
  /\ status = "abort"
  /\ diags[1].message = LabelExists
  /\ curToken.text \in labelsDeclared
  /\ blocks # <<>>

\* the kinds after which the parser calls primary() on the next token, unless
\* that token is a sign or, after PRINT, a string
ExpressionLeaders ==
  {"PRINT", "IF", "WHILE", "EQ", "PLUS", "MINUS", "ASTERISK", "SLASH",
   "GT", "GTEQ", "LT", "LTEQ", "EQEQ", "NOTEQ"}

\* the current token is an identifier in an expression, and no LET or INPUT
\* before it declares it
UndeclaredReferenceIsCurrent ==
  /\ curToken.kind = "IDENT"
  /\ consumed # <<>>
  /\ consumed[Len(consumed)].kind \in ExpressionLeaders
  /\ curToken.text \notin DeclaredWithin(Len(consumed))

\* the scanner returned the token after the current one
LookaheadScanned == Len(returned) = Len(consumed) + 2

\* C4 as claimed: a run that stopped on an undeclared reference stopped with
\* the semantic diagnostic of primary(), whatever follows the identifier.
C4_AlwaysSemanticDiagnostic ==
  (status = "abort" /\ UndeclaredReferenceIsCurrent)
    => diags[1].message = ReferencedBeforeAssignment

\* C4 (amended): a run that reaches an undeclared reference ends there with
\* one diagnostic: the semantic one of primary() when the token after the
\* identifier was scanned, and the scanner's own when scanning that token
\* aborted, which happens as the identifier becomes the current token.
C4_SemanticUnlessLookaheadFails ==
  UndeclaredReferenceIsCurrent
    => /\ status = "abort"
       /\ Len(diags) = 1
       /\ IF LookaheadScanned
          THEN /\ diags[1].phase = "Error. "
               /\ diags[1].message = ReferencedBeforeAssignment
               /\ diags[1].detail = curToken.text
          ELSE /\ diags[1].phase = "Lexing Error. "
               /\ Len(returned) = Len(consumed) + 1

\* C4 witness: a run that primary() ended on an undeclared reference
C4_Witness ==
  /\ UndeclaredReferenceIsCurrent
  /\ LookaheadScanned
  /\ status = "abort"
  /\ diags[1].message = ReferencedBeforeAssignment

\* C5 as claimed: the EOF token comes exactly at the end of the source and
\* nothing but EOF comes after it.  Every EOF token starts at or after the end
\* of the source (the appended newline included), every token that starts
\* there is EOF, every token after an EOF token is EOF, and before the first
\* EOF token the tokens start at increasing places of the source.
C5_EofOnlyAtEndOfSource ==
  \A i \in DOMAIN returned :
    /\ (returned[i].kind = "EOF") <=> (returned[i].at >= Len(source))
    /\ \A j \in DOMAIN returned :
         i < j => /\ returned[i].kind = "EOF" => returned[j].kind = "EOF"
                  /\ returned[j].kind # "EOF" => returned[i].at < returned[j].at

\* C6: fail-fast.  A run that has aborted takes no further step; a run has at
\* most one diagnostic, and has one exactly when it has aborted; and at the end
\* of the step that aborted, the tokens requested from the lexer, the tokens
\* advanced past, the header, the body and the three sets are what they were
\* when the diagnostic was produced.
C6_FailFast ==
  [][/\ status = "abort" => UNCHANGED vars
     /\ Len(diags') <= 1
     /\ (status' = "abort") <=> (Len(diags') = 1)
     /\ diags' # <<>> =>
          /\ diags'[1].nReturned = Len(returned')
          /\ diags'[1].nConsumed = Len(consumed')
          /\ diags'[1].nHeader = Len(header')
          /\ diags'[1].nCode = Len(code')
          /\ diags'[1].sets = <<symbols', labelsDeclared', labelsGotoed'>>
          /\ diags'[1].phase \in {"Error. ", "Lexing Error. "}]_vars

\* C6 witness: a run aborted by the parser after it had emitted statements and
\* declared a variable
C6_Witness ==
  /\ status = "abort"
  /\ Len(diags) = 1
  /\ diags[1].phase = "Error. "
  /\ code # <<>>
  /\ symbols # {}

\* the k-th index of a set of indices, in increasing order
Nth(S, k) == CHOOSE i \in S : Cardinality({j \in S : j <= i}) = k

\* the places in `consumed` of the LET and INPUT keywords, and of those whose
\* target no earlier LET or INPUT has
Targets == Keywords("LET") \cup Keywords("INPUT")

FirstTargets == {i \in Targets : NameAfter(i) \notin DeclaredWithin(i)}

Boilerplate ==
  <<(<<"#include <stdio.h>", "\n">>), (<<"int main(void){", "\n">>)>>

FloatLine(name) == <<"float ">> \o name \o <<";", "\n">>

\* the statement that the consumed keyword at i starts: its kind, and its name
\* for the statements that put a name in their first fragment
StatementAt(i) ==
  <<consumed[i].kind,
    IF consumed[i].kind \in {"LABEL", "GOTO", "LET", "INPUT"}
    THEN NameAfter(i) ELSE <<>>>>

\* the statement whose first fragment is f, or <<>> when f starts none
StatementStarting(f) ==
  CASE f[1] \in {"printf(\"", "printf(\"%"} -> <<"PRINT", <<>>>>
    [] f = <<"if(">> -> <<"IF", <<>>>>
    [] f = <<"while(">> -> <<"WHILE", <<>>>>
    [] f[1] = "goto " -> <<"GOTO", SubSeq(f, 2, Len(f) - 2)>>
    [] f[1] = "if(0==scanf(\"%" -> <<"INPUT", SubSeq(f, 3, Len(f) - 2)>>
    [] f[Len(f)] = " = " -> <<"LET", SubSeq(f, 1, Len(f) - 1)>>
    [] Len(f) > 2 /\ f[Len(f) - 1] = ":" -> <<"LABEL", SubSeq(f, 1, Len(f) - 2)>>
    [] OTHER -> <<>>

StatementPlaces == {i \in DOMAIN consumed : consumed[i].kind \in StatementKinds}

FirstFragments == {i \in DOMAIN code : StatementStarting(code[i]) # <<>>}

\* C7: output layout on success.  In an accepted program the header is the two
\* boilerplate lines and then one float line per distinct LET or INPUT target,
\* in the order in which the names first occur as a target; the body ends with
\* the two lines of the epilogue; and the statements that start in the body
\* are the statements of the source, in the order of the source.
C7_OutputLayout ==
  pc = "done" =>
    /\ header = Boilerplate
                  \o [k \in 1..Cardinality(FirstTargets) |->
                        FloatLine(NameAfter(Nth(FirstTargets, k)))]
    /\ EpilogueEmitted
    /\ [k \in 1..Cardinality(FirstFragments) |->
          StatementStarting(code[Nth(FirstFragments, k)])]
         = [k \in 1..Cardinality(StatementPlaces) |->
              StatementAt(Nth(StatementPlaces, k))]

\* C7 witness: an accepted program with two variables, one of them the target
\* of two statements
C7_Witness ==
  /\ pc = "done"
  /\ Cardinality(FirstTargets) = 2
  /\ Cardinality(Targets) = 3

Signs == {<<"+">>, <<"-">>}

\* C8 as claimed: in the body of an accepted program no sign fragment is
\* followed at once by a fragment of the same sign, so that the text of the
\* body never holds the target's ++ or -- where the source had two operators.
C8_NoSignRunsIntoSign ==
  pc = "done" =>
    \A i \in 1..(Len(code) - 1) :
      ~(code[i] \in Signs /\ code[i + 1] = code[i])

\* the characters of the tokens of an expression
SpellingChars ==
  Digits \cup Letters \cup {".", "+", "-", "*", "/", "=", "<", ">", "!"}

\* a fragment that is the spelling of a token and nothing else
IsSpelling(f) == \A k \in DOMAIN f : f[k] \in SpellingChars

ExpressionRoutines == {"primary", "unary", "term", "expression", "comparison"}

\* the places in `consumed` of the tokens of expressions, and the places in
\* the body of the fragments that spell a token
ExpressionTokens ==
  {i \in DOMAIN consumed : consumed[i].by \in ExpressionRoutines}

SpellingFragments == {i \in DOMAIN code : IsSpelling(code[i])}

\* C9: verbatim expression emission.  While the run has not aborted, the
\* fragments of the body that spell a token are, one for one and in order, the
\* tokens that the expression routines advanced past, each with its source
\* spelling; and two tokens next to each other in the source have their
\* fragments next to each other in the body, nothing standing between them.
C9_VerbatimExpressions ==
  status = "run" =>
    /\ Cardinality(SpellingFragments) = Cardinality(ExpressionTokens)
    /\ \A k \in 1..Cardinality(ExpressionTokens) :
         code[Nth(SpellingFragments, k)] = consumed[Nth(ExpressionTokens, k)].text
    /\ \A k \in 1..(Cardinality(ExpressionTokens) - 1) :
         Nth(ExpressionTokens, k + 1) = Nth(ExpressionTokens, k) + 1
           => Nth(SpellingFragments, k + 1) = Nth(SpellingFragments, k) + 1

\* C9 witness: an accepted program with a comparison whose left side has a
\* unary sign
C9_Witness ==
  /\ pc = "done"
  /\ \E i \in DOMAIN consumed : consumed[i].by = "unary"
  /\ \E i \in DOMAIN consumed : consumed[i].by = "comparison"

\* the character of the source at cursor p, as nextChar() would set it
CharAt(p) == IF p < Len(source) THEN source[p + 1] ELSE NUL

\* the length of the longest run of digits that starts at p
DigitRun(p) ==
  CHOOSE n \in 0..Len(source) :
    /\ \A k \in 0..(n - 1) : IsDigit(CharAt(p + k))
    /\ ~IsDigit(CharAt(p + n))

\* a point after the digits that start at p
PointAfter(p) == CharAt(p + DigitRun(p)) = "."

\* the digits that start at p, a point, and no digit after the point
Malformed(p) == PointAfter(p) /\ DigitRun(p + DigitRun(p) + 1) = 0

\* the length of the numeric literal that starts at p
NumberLen(p) ==
  IF PointAfter(p) THEN DigitRun(p) + 1 + DigitRun(p + DigitRun(p) + 1)
  ELSE DigitRun(p)

IllegalInNumber == "Illegal character in number."

\* C10: numeric literal scanning.  A token that getToken returned from a digit
\* is a NUMBER token, its text is the longest run of digits there with, if a
\* point and a digit follow, the point and the longest run of digits after it,
\* and the cursor was left right after that text; a NUMBER token starts at a
\* digit; no token was returned from digits followed by a point and no digit;
\* and a call that aborted from a digit found just that, said so, and
\* returned no token.
C10_NumericLiteral ==
  /\ \A i \in DOMAIN returned :
       /\ (returned[i].kind = "NUMBER") <=> IsDigit(CharAt(returned[i].at))
       /\ returned[i].kind = "NUMBER" =>
            /\ ~Malformed(returned[i].at)
            /\ returned[i].text
                 = Slice(source, returned[i].at,
                         returned[i].at + NumberLen(returned[i].at))
            /\ returned[i].end = returned[i].at + NumberLen(returned[i].at)
  /\ \A d \in DOMAIN diags :
       /\ IsDigit(CharAt(diags[d].detail[1])) =>
            /\ Malformed(diags[d].detail[1])
            /\ diags[d].message = IllegalInNumber
            /\ diags[d].nReturned = Len(returned)
       /\ diags[d].message = IllegalInNumber =>
            IsDigit(CharAt(diags[d].detail[1]))

\* C10 witness: a NUMBER token with a fraction was returned
C10_Witness ==
  \E i \in DOMAIN returned :
    /\ returned[i].kind = "NUMBER"
    /\ PointAfter(returned[i].at)
    /\ Len(returned[i].text) = NumberLen(returned[i].at)

\* the one-character and the two-character token of a relational character
OneCharKind(c) == CASE c = "=" -> "EQ" [] c = ">" -> "GT" [] c = "<" -> "LT"

TwoCharKind(c) ==
  CASE c = "=" -> "EQEQ" [] c = ">" -> "GTEQ" [] c = "<" -> "LTEQ"
    [] c = "!" -> "NOTEQ"

RelationalKinds == {"EQ", "GT", "LT", "EQEQ", "GTEQ", "LTEQ", "NOTEQ"}

ExpectedNotEq == "Expected !=,  got !"

\* the token that getToken returned from cursor `at` is the two-character one
IsTwoCharToken(t) ==
  /\ t.kind = TwoCharKind(CharAt(t.at))
  /\ t.text = <<CharAt(t.at), "=">>
  /\ t.end = t.at + 2

IsOneCharToken(t) ==
  /\ t.kind = OneCharKind(CharAt(t.at))
  /\ t.text = <<CharAt(t.at)>>
  /\ t.end = t.at + 1

\* C11: operator scanning.  A token returned from = > or < is the
\* two-character token, the cursor two further, when the next character is =,
\* and the one-character token, the cursor one further, when it is not; a
\* token returned from ! is NOTEQ and the next character was =; the tokens of
\* these kinds come from these characters only; and a call that aborted from !
\* found another character than = after it and said so, while a call from = >
\* < or from != never aborts.
C11_OperatorScanning ==
  /\ \A i \in DOMAIN returned :
       /\ CharAt(returned[i].at) \in {"=", ">", "<"} =>
            IF CharAt(returned[i].at + 1) = "="
            THEN IsTwoCharToken(returned[i])
            ELSE IsOneCharToken(returned[i])
       /\ CharAt(returned[i].at) = "!" =>
            /\ CharAt(returned[i].at + 1) = "="
            /\ IsTwoCharToken(returned[i])
       /\ returned[i].kind \in RelationalKinds =>
            CharAt(returned[i].at) \in {"=", ">", "<", "!"}
  /\ \A d \in DOMAIN diags :
       /\ CharAt(diags[d].detail[1]) \notin {"=", ">", "<"}
       /\ CharAt(diags[d].detail[1]) = "!" =>
            /\ CharAt(diags[d].detail[1] + 1) # "="
            /\ diags[d].phase = "Lexing Error. "
            /\ diags[d].message = ExpectedNotEq
            /\ diags[d].nReturned = Len(returned)
       /\ diags[d].message = ExpectedNotEq => CharAt(diags[d].detail[1]) = "!"

\* C11 witness: a two-character token was returned and, right after it, the
\* one-character token of the = that follows
C11_Witness ==
  \E i \in 1..(Len(returned) - 1) :
    /\ returned[i].kind \in {"EQEQ", "GTEQ", "LTEQ", "NOTEQ"}
    /\ returned[i + 1].kind = "EQ"
    /\ returned[i + 1].at = returned[i].at + 2

\* the eleven reserved words
ReservedKinds ==
  {"LABEL", "GOTO", "PRINT", "INPUT", "LET", "IF", "THEN", "ENDIF", "WHILE",
   "REPEAT", "ENDWHILE"}

\* the kind of the word spelled text: the reserved word of that spelling, or
\* IDENT
WordKind(text) ==
  IF \E k \in ReservedKinds : Kw(k) = text
  THEN CHOOSE k \in ReservedKinds : Kw(k) = text
  ELSE "IDENT"

\* the length of the longest run of letters and digits that starts at p
WordRun(p) ==
  CHOOSE n \in 0..Len(source) :
    /\ \A k \in 0..(n - 1) : IsAlnum(CharAt(p + k))
    /\ ~IsAlnum(CharAt(p + n))

\* C12: keyword versus identifier.  A token returned from a letter has as text
\* the longest run of letters and digits there, the cursor left right after
\* it; it is the keyword token of a reserved word if and only if its text is
\* exactly the spelling of that reserved word, and IDENT otherwise; keyword
\* and IDENT tokens come from a letter only; and no call aborts from a letter.
C12_KeywordOrIdentifier ==
  /\ \A i \in DOMAIN returned :
       /\ IsAlpha(CharAt(returned[i].at)) =>
            /\ returned[i].text
                 = Slice(source, returned[i].at,
                         returned[i].at + WordRun(returned[i].at))
            /\ returned[i].end = returned[i].at + WordRun(returned[i].at)
            /\ returned[i].kind = WordKind(returned[i].text)
       /\ returned[i].kind \in ReservedKinds \cup {"IDENT"} =>
            IsAlpha(CharAt(returned[i].at))
  /\ \A d \in DOMAIN diags : ~IsAlpha(CharAt(diags[d].detail[1]))

\* C12 witness: the tokens of IF, of its lower-case spelling and of the name
\* of a token kind that is no keyword were returned
C12_Witness ==
  /\ \E i \in DOMAIN returned : returned[i].kind = "IF"
  /\ \E i \in DOMAIN returned :
       /\ returned[i].kind = "IDENT"
       /\ returned[i].text \in {<<"i", "f">>, <<"E", "O", "F">>}

Quote == "\""

\* the characters that end a string literal without closing it
StringBreakers == {"\n", "\r", "\t", "%", "\\"}

IllegalInStringMessage == "Illegal character in string."

\* the number of characters after the quote at p that neither close nor break
\* the literal
StringRun(p) ==
  CHOOSE n \in 0..Len(source) :
    /\ \A k \in 1..n : CharAt(p + k) \notin StringBreakers \cup {Quote}
    /\ CharAt(p + n + 1) \in StringBreakers \cup {Quote}

\* the literal that opens at p is closed by a quote
Closed(p) == CharAt(p + 1 + StringRun(p)) = Quote

\* C13: string literal safety.  A token returned from a quote is a STRING
\* token of a closed literal, its text the characters strictly between the two
\* quotes, none of them a newline, carriage return, tab, percent sign,
\* backslash or quote, the cursor left right after the closing quote; STRING
\* tokens come from a quote only; and a call that aborted from a quote read a
\* literal that a newline, carriage return, tab, percent sign or backslash
\* breaks before any closing quote, said so, returned no token and stopped on
\* that character, inside the buffer.
C13_StringLiteralSafety ==
  /\ \A i \in DOMAIN returned :
       /\ (returned[i].kind = "STRING") <=> (CharAt(returned[i].at) = Quote)
       /\ returned[i].kind = "STRING" =>
            /\ Closed(returned[i].at)
            /\ returned[i].text
                 = Slice(source, returned[i].at + 1,
                         returned[i].at + 1 + StringRun(returned[i].at))
            /\ returned[i].end = returned[i].at + StringRun(returned[i].at) + 2
            /\ \A k \in DOMAIN returned[i].text :
                 returned[i].text[k] \notin StringBreakers \cup {Quote}
  /\ \A d \in DOMAIN diags :
       /\ CharAt(diags[d].detail[1]) = Quote =>
            /\ ~Closed(diags[d].detail[1])
            /\ diags[d].phase = "Lexing Error. "
            /\ diags[d].message = IllegalInStringMessage
            /\ diags[d].nReturned = Len(returned)
            /\ curPos = diags[d].detail[1] + 1 + StringRun(diags[d].detail[1])
            /\ curPos < Len(source)
            /\ curChar \in StringBreakers
       /\ diags[d].message = IllegalInStringMessage =>
            CharAt(diags[d].detail[1]) = Quote

\* C13 witness: a STRING token that is not empty was returned
C13_Witness ==
  \E i \in DOMAIN returned :
    /\ returned[i].kind = "STRING"
    /\ returned[i].text # <<>>
    /\ Closed(returned[i].at)

\* C13 witness of the abort: a literal that nothing closes ended the run on
\* the newline the lexer appended
C13_UnclosedWitness ==
  /\ status = "abort"
  /\ diags[1].message = IllegalInStringMessage
  /\ curPos = Len(source) - 1

\* the tokens a statement, or the rest of one after a body, starts with
StatementOpeners == StatementKinds \cup {"ENDIF", "ENDWHILE"}

\* the place in the source of the token that is current
CurrentAt == returned[Len(consumed) + 1].at

\* C14: statement termination.  In an accepted program every statement but
\* the first token of the program starts right after a NEWLINE token, every
\* THEN and REPEAT is followed by a NEWLINE token, and the last token before
\* EOF is a NEWLINE token; every newline of the source before the EOF token,
\* the appended one and the one that ends a comment included, was returned as
\* a NEWLINE token; and on a source without NUL no run aborts for want of a
\* NEWLINE with the EOF token current.
C14_StatementTermination ==
  /\ pc = "done" =>
       /\ \A i \in DOMAIN consumed :
            /\ (i > 1 /\ consumed[i].kind \in StatementOpeners)
                 => consumed[i - 1].kind = "NEWLINE"
            /\ consumed[i].kind \in {"THEN", "REPEAT"}
                 => (i < Len(consumed) /\ consumed[i + 1].kind = "NEWLINE")
       /\ consumed # <<>> => consumed[Len(consumed)].kind = "NEWLINE"
       /\ \A p \in 0..(CurrentAt - 1) :
            CharAt(p) = "\n" =>
              \E i \in DOMAIN returned :
                returned[i].at = p /\ returned[i].kind = "NEWLINE"
  /\ (\A k \in DOMAIN source : source[k] # NUL) =>
       \A d \in DOMAIN diags :
         ~(diags[d].message = "Expected " /\ diags[d].detail = <<"NEWLINE", "EOF">>)

\* C14 witness: an accepted program whose last statement is followed by a
\* comment and by no newline of its own
C14_Witness ==
  /\ pc = "done"
  /\ \E i \in DOMAIN consumed : consumed[i].kind \in StatementKinds
  /\ \E k \in DOMAIN source : source[k] = "#"
  /\ \A k \in 1..(Len(source) - 1) : source[k] # "\n"

\* how the translation ended
Succeeded == pc = "done" /\ status = "run" /\ diags = <<>>

Aborted == status = "abort" /\ Len(diags) = 1 /\ pc # "done"

InvalidStatementAt == "Invalid Statement at "

\* what holds of the cursor and of the two histories in every state: each
\* getToken call started at or after the place the call before it left the
\* cursor on and left the cursor further on; the tokens advanced past are the
\* tokens returned, in that order, none of them EOF; and no more than one
\* token was requested after the first EOF token
ProgressSoFar ==
  /\ \A i \in DOMAIN returned :
       /\ returned[i].end > returned[i].at
       /\ i > 1 => returned[i].at >= returned[i - 1].end
       /\ returned[i].kind = "EOF" => i >= Len(returned) - 1
  /\ Len(consumed) <= Len(returned)
  /\ \A i \in DOMAIN consumed :
       /\ consumed[i].kind = returned[i].kind
       /\ consumed[i].text = returned[i].text
       /\ consumed[i].kind # "EOF"

\* in a state where the run has not ended, the condition of one of the steps
\* holds; a step is its condition and the state its routine computes
SomeStepPossible ==
  ~Ended =>
    \/ pc \in {"load", "init", "program"}
    \/ /\ pc = "stmts"
       /\ IF checkToken(Cur, Closer)
          THEN blocks # <<>> => blocks[Len(blocks)] \in {"IF", "WHILE"}
          ELSE \/ \E kind \in StatementKinds : StatementOf(kind)
               \/ curToken.kind \notin StatementKinds

\* what holds of every step: it is counted; and a pass of a statement loop
\* advances past a token, or aborts, or ends the program; and with EOF
\* current inside an IF or WHILE body it aborts, in the else branch of
\* statement()
LoopStep ==
  /\ steps' = steps + 1
  /\ (pc = "stmts" /\ status = "run")
       => \/ Len(consumed') > Len(consumed)
          \/ status' = "abort"
          \/ pc' = "done"
  /\ (pc = "stmts" /\ status = "run" /\ blocks # <<>> /\ curToken.kind = "EOF")
       => /\ status' = "abort"
          /\ diags'[1].message = InvalidStatementAt
          /\ Len(consumed') = Len(consumed)

\* C15: termination.  Every run ends, in success or in one abort and never in
\* both, and stays ended; every getToken call moves the cursor forward; every
\* pass of a statement loop advances past a token, aborts or ends the program;
\* the parser never advances past the EOF token; and an IF or WHILE body that
\* meets EOF aborts.
C15_Termination ==
  /\ <>[](Succeeded \/ Aborted)
  /\ [](ProgressSoFar /\ SomeStepPossible)
  /\ [][LoopStep]_vars

\* C15 witness: a run that aborted on EOF inside the body of an IF
C15_Witness ==
  /\ Aborted
  /\ blocks # <<>>
  /\ curToken.kind = "EOF"
  /\ diags[1].message = InvalidStatementAt

Mismatch == <<"mismatch">>

\* the IF and WHILE bodies open after the first n consumed tokens, innermost
\* last, or Mismatch when an ENDIF or ENDWHILE among them closes nothing or
\* closes the other kind of body
RECURSIVE OpenAfter(_)
OpenAfter(n) ==
  IF n = 0 THEN <<>>
  ELSE LET Closing(open, kind) ==
             IF open # Mismatch /\ open # <<>> /\ open[Len(open)] = kind
             THEN SubSeq(open, 1, Len(open) - 1)
             ELSE Mismatch
           After(open, kind) ==
             CASE open = Mismatch -> Mismatch
               [] kind \in {"IF", "WHILE"} -> Append(open, kind)
               [] kind = "ENDIF" -> Closing(open, "IF")
               [] kind = "ENDWHILE" -> Closing(open, "WHILE")
               [] OTHER -> open
       IN After(OpenAfter(n - 1), consumed[n].kind)

BlockOpen == <<"){", "\n">>

BlockClose == <<"}", "\n">>

\* the fragments after which a closing brace is not the end of an IF or WHILE
\* block: the end of the scanf guard of INPUT, and the return of the epilogue
NoBlockBefore == {<<"*s\");", "\n">>, <<"return 0;", "\n">>}

\* the block-open lines and the block-close lines of IF and WHILE among the
\* first n fragments of the body
OpensWithin(n) == {i \in 1..n : code[i] = BlockOpen}

ClosesWithin(n) ==
  {i \in 1..n : /\ code[i] = BlockClose
                /\ i > 1
                /\ code[i - 1] \notin NoBlockBefore}

\* the current token ends a body that is not the innermost open one
StrayEnd ==
  /\ pc = "stmts"
  /\ status = "run"
  /\ curToken.kind \in {"ENDIF", "ENDWHILE"}
  /\ OpenAfter(Len(consumed)) # Mismatch
  /\ \/ OpenAfter(Len(consumed)) = <<>>
     \/ curToken.kind = "ENDIF"
          /\ OpenAfter(Len(consumed))[Len(OpenAfter(Len(consumed)))] = "WHILE"
     \/ curToken.kind = "ENDWHILE"
          /\ OpenAfter(Len(consumed))[Len(OpenAfter(Len(consumed)))] = "IF"

\* the nesting in every state: the tokens advanced past never close what is
\* not open, the bodies they leave open are the bodies the run is in, after
\* every number of fragments the block-close lines are no more than the
\* block-open lines, and the difference is the number of bodies the run is
\* in; an accepted program leaves none open
NestingSoFar ==
  /\ status = "run" =>
       /\ OpenAfter(Len(consumed)) # Mismatch
       /\ pc = "stmts" => OpenAfter(Len(consumed)) = blocks
  /\ \A n \in 0..Len(code) :
       Cardinality(ClosesWithin(n)) <= Cardinality(OpensWithin(n))
  /\ Cardinality(OpensWithin(Len(code)))
       = Cardinality(ClosesWithin(Len(code))) + Len(blocks)
  /\ pc = "done" =>
       /\ OpenAfter(Len(consumed)) = <<>>
       /\ Cardinality(OpensWithin(Len(code)))
            = Cardinality(ClosesWithin(Len(code)))

\* C16: block matching.  In every state the IF/ENDIF and WHILE/ENDWHILE
\* tokens advanced past are properly nested and the block-close lines emitted
\* never outnumber the block-open lines, the two being equal when the program
\* is accepted; and a step taken with an ENDIF or ENDWHILE current that does
\* not end the innermost open body aborts the run in the else branch of
\* statement(), emitting nothing.
C16_BlockMatching ==
  /\ []NestingSoFar
  /\ [][StrayEnd => /\ status' = "abort"
                    /\ diags'[1].message = InvalidStatementAt
                    /\ code' = code
                    /\ consumed' = consumed]_vars

\* C16 witness: an accepted program with a WHILE inside an IF
C16_Witness ==
  /\ pc = "done"
  /\ \E n \in DOMAIN consumed : OpenAfter(n) = <<"IF", "WHILE">>

\* C16 witness of the abort: an ENDWHILE inside the body of an IF ended the run
C16_StrayWitness ==
  /\ status = "abort"
  /\ diags[1].message = InvalidStatementAt
  /\ curToken.kind = "ENDWHILE"
  /\ blocks = <<"IF">>

\* the places of the float declarations in the header stream
FloatLines == {i \in DOMAIN header : header[i][1] = "float "}

\* the sets only grow, and the streams are only appended to
Grows ==
  /\ symbols \subseteq symbols'
  /\ labelsDeclared \subseteq labelsDeclared'
  /\ labelsGotoed \subseteq labelsGotoed'
  /\ Len(header') >= Len(header)
  /\ SubSeq(header', 1, Len(header)) = header
  /\ Len(code') >= Len(code)
  /\ SubSeq(code', 1, Len(code)) = code

\* one float declaration in the header for each name in symbols, and no other
DeclaredOnce ==
  /\ Cardinality(FloatLines) = Cardinality(symbols)
  /\ \A name \in symbols :
       Cardinality({i \in FloatLines : header[i] = FloatLine(name)}) = 1
  /\ \A i \in FloatLines : \E name \in symbols : header[i] = FloatLine(name)

\* C17: monotone whole-run state.  Across every step symbols, labelsDeclared
\* and labelsGotoed only grow and the two streams are only appended to; and in
\* every state the header holds exactly one float declaration for each name
\* in symbols, and as many float declarations as symbols has names.
C17_MonotoneState ==
  /\ [][Grows]_vars
  /\ []DeclaredOnce

\* C17 witness: an accepted program that declared two variables and a label
C17_Witness ==
  /\ pc = "done"
  /\ Cardinality(symbols) = 2
  /\ labelsDeclared # {}
  /\ Cardinality(FloatLines) = 2

\* the places in `consumed` of the LET keywords whose statement got as far as
\* its right-hand side: the name and the = were advanced past
LetsWithRhs ==
  {i \in 1..(Len(consumed) - 2) : /\ consumed[i].kind = "LET"
                                  /\ consumed[i + 1].kind = "IDENT"
                                  /\ consumed[i + 2].kind = "EQ"}

\* the statement of the LET at i is the one the run is in, or ended in
IsLastStatement(i) ==
  \A j \in (i + 1)..Len(consumed) : consumed[j].kind # "NEWLINE"

\* the places of the identifiers that primary() advanced past in the
\* right-hand side of the LET at i
RhsUses(i) ==
  {j \in (i + 3)..Len(consumed) :
     /\ UsedByPrimary(j)
     /\ \A k \in (i + 1)..j : consumed[k].kind # "NEWLINE"}

\* C18: a LET declares its target before its right-hand side.  In every state,
\* for every LET whose right-hand side was reached, the target is in symbols
\* and has its float line in the header, also when the run aborted inside that
\* right-hand side; and a run that aborted there for a reference before
\* assignment did not abort on the target of that LET.
C18_LetDeclaresTargetFirst ==
  \A i \in LetsWithRhs :
    /\ NameAfter(i) \in symbols
    /\ \E h \in DOMAIN header : header[h] = FloatLine(NameAfter(i))
    /\ (/\ IsLastStatement(i)
        /\ diags # <<>>
        /\ diags[1].message = ReferencedBeforeAssignment)
         => diags[1].detail # NameAfter(i)

\* C18 witness: an accepted program whose only declaration of a name is the
\* LET whose right-hand side uses it
C18_Witness ==
  /\ pc = "done"
  /\ \E i \in LetsWithRhs :
       /\ NameAfter(i) \notin DeclaredWithin(i)
       /\ \E j \in RhsUses(i) : consumed[j].text = NameAfter(i)
       /\ Cardinality(Targets) = 1

====
